---- MODULE Spec2Model ----
(***************************************************************************)
(* Model of realtime-clipboard's server (src/server.js): the versioned     *)
(* file store, the environment lifecycle (text, empty-environment GC) and  *)
(* the chunked-upload assembler.                                           *)
(*                                                                         *)
(* One logical file name is modelled per environment.  A file's bytes are  *)
(* a sequence of small integers.  Inside one environment a path is a       *)
(* number: 0 is the live copy <uploads>/<env>/<file>, and v >= 1 is the    *)
(* archived blob <uploads>/<env>/.versions/<file>/<versionId v><ext>.      *)
(***************************************************************************)
EXTENDS Integers, Sequences, FiniteSets, TLC

\* ---------------------------------------------------------------- bounds
MaxTime == 1
MaxVersions == 3
MaxPending == 1
MaxUploads == 1
MaxChunks == 2
MaxReceived == 3
MaxClock == 3
MaxOpen == 2

\* ------------------------------------------------------------- constants
DefaultEnv == "default"
Envs == {"default", "x"}
ByteValues == {1, 2}
Contents == {<<1>>, <<2>>}
Texts == {"", " ", "a"}

LivePath == 0
NoPath == -1
NoFiles == [p \in {} |-> <<>>]
NoText == "<none>"
Missing == -1
NoTime == -1
FileNames == {"doc.txt", ".env"}
FileSizes == {Missing, 0, 1}

VARIABLES now, nextId, fs, textFile, textCache, gcPending,
          uploadSessions, tempDir, nextUpload,
          fileName, lastText, completed, orphanedCount,
          orig, promoted, deleted, via, result

vars == <<now, nextId, fs, textFile, textCache, gcPending,
          uploadSessions, tempDir, nextUpload,
          fileName, lastText, completed, orphanedCount,
          orig, promoted, deleted, via, result>>

storeVars == <<fs, textFile, textCache, gcPending>>
uploadVars == <<uploadSessions, tempDir, nextUpload>>

\* ------------------------------------------------------- file primitives
existsSync(files, p) == p \in DOMAIN files

\* fs.copyFileSync: dst is created or overwritten with the bytes of src; when
\* src and dst are the same file the call succeeds and leaves it as it is
copyFileSync(files, src, dst) ==
  [p \in (DOMAIN files) \cup {dst} |-> IF p = dst THEN files[src] ELSE files[p]]

writeFileSync(files, dst, bytes) ==
  [p \in (DOMAIN files) \cup {dst} |-> IF p = dst THEN bytes ELSE files[p]]

unlinkSync(files, p) == [q \in (DOMAIN files) \ {p} |-> files[q]]

\* String.prototype.trim on the modelled texts
Trim(t) == IF t = " " THEN "" ELSE t

\* --------------------------------------------------------- version store
NullVersion == [versionId |-> 0, uploadedAt |-> 0, fileSize |-> 0]

EmptyEnv == [dir |-> FALSE, versionsDir |-> FALSE, fileVersionsDir |-> FALSE,
             metadataFile |-> <<>>, files |-> NoFiles]

getEnvironmentUploadsDir_Create(s, createIfNotExists) ==
  [s EXCEPT !.dir = TRUE]

getEnvironmentUploadsDir(s, createIfNotExists) ==
  IF createIfNotExists /\ ~s.dir THEN [s EXCEPT !.dir = TRUE] ELSE s

createFileMetadata == [versions |-> <<>>, currentVersion |-> NullVersion]

\* Array.prototype.sort with (a, b) => b.uploadedAt - a.uploadedAt: stable,
\* newest first.  InsertSorted puts v behind every entry that is at least as new.
\* an unstable sort: v is put in front of the entries as new as itself
RECURSIVE InsertSorted_Unstable(_, _)
InsertSorted_Unstable(sorted, v) ==
  IF sorted = <<>> THEN <<v>>
  ELSE IF Head(sorted).uploadedAt > v.uploadedAt
       THEN <<Head(sorted)>> \o InsertSorted_Unstable(Tail(sorted), v)
       ELSE <<v>> \o sorted

RECURSIVE InsertSorted(_, _)
InsertSorted(sorted, v) ==
  IF sorted = <<>> THEN <<v>>
  ELSE IF Head(sorted).uploadedAt >= v.uploadedAt
       THEN <<Head(sorted)>> \o InsertSorted(Tail(sorted), v)
       ELSE <<v>> \o sorted

RECURSIVE SortNewestFirst(_)
SortNewestFirst(versions) ==
  IF versions = <<>> THEN <<>>
  ELSE InsertSorted(SortNewestFirst(SubSeq(versions, 1, Len(versions) - 1)),
                    versions[Len(versions)])

\* the push without the sort: the first entry pushed stays current
addVersionToMetadata_NoSort(metadata, versionInfo) ==
  LET pushed == Append(metadata.versions, versionInfo)
  IN [versions |-> pushed, currentVersion |-> pushed[1]]

addVersionToMetadata_Overwrite(metadata, versionInfo) ==
  [metadata EXCEPT !.versions = <<versionInfo>>, !.currentVersion = versionInfo]

addVersionToMetadata(metadata, versionInfo) ==
  LET sorted == SortNewestFirst(Append(metadata.versions, versionInfo))
  IN [versions |-> sorted, currentVersion |-> sorted[1]]

readFileMetadata(s) ==
  IF s.metadataFile # <<>> THEN s.metadataFile[1] ELSE createFileMetadata

writeFileMetadata(s, metadata) ==
  [s EXCEPT !.versionsDir = TRUE, !.fileVersionsDir = TRUE,
            !.metadataFile = <<metadata>>]

FindVersion(metadata, versionId) ==
  {i \in 1..Len(metadata.versions) : metadata.versions[i].versionId = versionId}

\* the splice left out: the entry stays in versions
RemoveAt_Keep(seq, i) == seq

RemoveAt(seq, i) == SubSeq(seq, 1, i - 1) \o SubSeq(seq, i + 1, Len(seq))

createNewVersion(s, versionId, uploadedAt, source) ==
  LET s1 == getEnvironmentUploadsDir(s, TRUE)
      s2 == [s1 EXCEPT !.versionsDir = TRUE, !.fileVersionsDir = TRUE]
      metadata == readFileMetadata(s2)
      oldVersionPath == metadata.currentVersion.versionId
      s3 == IF metadata.currentVersion # NullVersion
               /\ existsSync(s2.files, LivePath)
               /\ ~existsSync(s2.files, oldVersionPath)
            THEN [s2 EXCEPT !.files = copyFileSync(s2.files, LivePath, oldVersionPath)]
            ELSE s2
      s4 == [s3 EXCEPT !.files = writeFileSync(s3.files, LivePath, source)]
      versionInfo == [versionId |-> versionId, uploadedAt |-> uploadedAt,
                      fileSize |-> Len(source)]
      newMetadata == addVersionToMetadata(metadata, versionInfo)
  IN [versionInfo |-> versionInfo, metadata |-> newMetadata,
      state |-> writeFileMetadata(s4, newMetadata)]

\* the steps of createNewVersion that write to the disk and can throw
FailSteps == {"archive", "source", "metadata"}

\* createNewVersion throwing at step failAt: what the call leaves on the disk.
\* Nothing is undone: "archive" is the copy of the live file into the version
\* directory (line 410), "source" the copy of the new bytes over the live file
\* (line 415), "metadata" the write in writeFileMetadata (line 379); the
\* failing call itself writes nothing.
createNewVersionFailing(s, failAt, source) ==
  LET s1 == getEnvironmentUploadsDir(s, TRUE)
      s2 == [s1 EXCEPT !.versionsDir = TRUE, !.fileVersionsDir = TRUE]
      metadata == readFileMetadata(s2)
      oldVersionPath == metadata.currentVersion.versionId
      archives == /\ metadata.currentVersion # NullVersion
                  /\ existsSync(s2.files, LivePath)
                  /\ ~existsSync(s2.files, oldVersionPath)
      s3 == IF archives
            THEN [s2 EXCEPT !.files = copyFileSync(s2.files, LivePath, oldVersionPath)]
            ELSE s2
      s4 == [s3 EXCEPT !.files = writeFileSync(s3.files, LivePath, source)]
  IN [reached |-> failAt = "archive" => archives,
      state |-> IF failAt = "archive" THEN s2
                ELSE IF failAt = "source" THEN s3
                ELSE s4]

\* the live path returned for every known version
getFileVersionPath_Live(s, versionId) ==
  IF FindVersion(readFileMetadata(s), versionId) = {} THEN NoPath ELSE LivePath

getFileVersionPath(s, versionId) ==
  LET metadata == readFileMetadata(s)
  IN IF FindVersion(metadata, versionId) = {} THEN NoPath
     ELSE IF versionId = metadata.currentVersion.versionId THEN LivePath
     ELSE versionId

\* the tail of deleteFileVersion: update or remove the metadata
SaveOrRemoveMetadata(s, metadata) ==
  IF metadata.versions = <<>>
  THEN [s EXCEPT !.metadataFile = <<>>,
                 !.fileVersionsDir =
                    IF s.fileVersionsDir
                    THEN (DOMAIN s.files) \ {LivePath} # {}   \* rmdirSync fails on a non-empty directory
                    ELSE FALSE]
  ELSE writeFileMetadata(s, metadata)

\* currentVersion left pointing at the deleted version
deleteFileVersion_StaleCurrent(s, versionId) ==
  LET metadata == readFileMetadata(s)
      found == FindVersion(metadata, versionId)
  IN IF found = {} THEN [ok |-> FALSE, metadata |-> metadata, state |-> s]
     ELSE
       LET versionIndex == CHOOSE i \in found : \A j \in found : i <= j
           rest == RemoveAt(metadata.versions, versionIndex)
       IN IF versionId = metadata.currentVersion.versionId
          THEN LET s1 == [s EXCEPT !.files = unlinkSync(s.files, LivePath)]
                   sorted == SortNewestFirst(rest)
                   newCurrent == IF rest # <<>> THEN sorted[1] ELSE NullVersion
                   newCurrentVersionPath ==
                     IF rest # <<>> THEN getFileVersionPath(s1, newCurrent.versionId)
                     ELSE NoPath
                   s2 == IF rest # <<>> /\ existsSync(s1.files, newCurrentVersionPath)
                         THEN [s1 EXCEPT !.files =
                                 copyFileSync(s1.files, newCurrentVersionPath, LivePath)]
                         ELSE s1
                   newMetadata == [versions |-> sorted,
                                   currentVersion |-> IF rest # <<>>
                                                      THEN metadata.currentVersion
                                                      ELSE NullVersion]
               IN [ok |-> TRUE, metadata |-> newMetadata,
                   state |-> SaveOrRemoveMetadata(s2, newMetadata)]
          ELSE LET versionPath == getFileVersionPath(s, versionId)
                   s1 == [s EXCEPT !.files = unlinkSync(s.files, versionPath)]
                   newMetadata == [metadata EXCEPT !.versions = rest]
               IN [ok |-> TRUE, metadata |-> newMetadata,
                   state |-> SaveOrRemoveMetadata(s1, newMetadata)]

deleteFileVersion(s, versionId) ==
  LET metadata == readFileMetadata(s)
      found == FindVersion(metadata, versionId)
  IN IF found = {} THEN [ok |-> FALSE, metadata |-> metadata, state |-> s]
     ELSE
       LET versionIndex == CHOOSE i \in found : \A j \in found : i <= j
           rest == RemoveAt(metadata.versions, versionIndex)
       IN IF versionId = metadata.currentVersion.versionId
          THEN LET s1 == [s EXCEPT !.files = unlinkSync(s.files, LivePath)]
                   sorted == SortNewestFirst(rest)
                   newCurrent == IF rest # <<>> THEN sorted[1] ELSE NullVersion
                   newCurrentVersionPath ==
                     IF rest # <<>> THEN getFileVersionPath(s1, newCurrent.versionId)
                     ELSE NoPath
                   s2 == IF rest # <<>> /\ existsSync(s1.files, newCurrentVersionPath)
                         THEN [s1 EXCEPT !.files =
                                 copyFileSync(s1.files, newCurrentVersionPath, LivePath)]
                         ELSE s1
                   newMetadata == [versions |-> sorted, currentVersion |-> newCurrent]
               IN [ok |-> TRUE, metadata |-> newMetadata,
                   state |-> SaveOrRemoveMetadata(s2, newMetadata)]
          ELSE LET versionPath == getFileVersionPath(s, versionId)
                   s1 == [s EXCEPT !.files = unlinkSync(s.files, versionPath)]
                   newMetadata == [metadata EXCEPT !.versions = rest]
               IN [ok |-> TRUE, metadata |-> newMetadata,
                   state |-> SaveOrRemoveMetadata(s1, newMetadata)]

\* the entries of the environment's uploads directory: the live copy under
\* the file's name, and the version-storage directory
VersionsDirName == ".versions"
readdirSync(s, name) ==
  (IF s.dir /\ existsSync(s.files, LivePath) THEN {name} ELSE {})
    \cup (IF s.dir /\ s.versionsDir THEN {VersionsDirName} ELSE {})

\* String.prototype.startsWith('.') on the modelled names
StartsWithDot(name) == name \in {".env", VersionsDirName}

isFile(name) == name # VersionsDirName

getAllVersionedFiles(s, name) ==
  {[originalFileName |-> entry,
    currentVersion |-> readFileMetadata(s).currentVersion,
    totalVersions |-> Len(readFileMetadata(s).versions),
    versions |-> readFileMetadata(s).versions,
    size |-> Len(s.files[LivePath])] :
     entry \in {n \in readdirSync(s, name) : ~StartsWithDot(n) /\ isFile(n)}}

\* the orphan cleanup left out
cleanupOrphanedVersionFolders_Skip(s) == s

\* every per-file version folder removed, with or without a live file
cleanupOrphanedVersionFolders_Always(s) ==
  IF ~s.versionsDir THEN s
  ELSE [s EXCEPT !.fileVersionsDir = FALSE, !.metadataFile = <<>>,
                 !.files = [p \in (DOMAIN s.files) \cap {LivePath} |-> s.files[p]],
                 !.versionsDir = FALSE]

cleanupOrphanedVersionFolders(s) ==
  IF ~s.versionsDir THEN s
  ELSE LET shouldRemove == s.fileVersionsDir /\ ~existsSync(s.files, LivePath)
           s1 == IF shouldRemove
                 THEN [s EXCEPT !.fileVersionsDir = FALSE, !.metadataFile = <<>>,
                                !.files = NoFiles]
                 ELSE s
       IN [s1 EXCEPT !.versionsDir = s1.fileVersionsDir]

\* --------------------------------------------------- environment registry
\* one environment's registry entry: its uploads tree, text file and cached text
EnvState(e) == [s |-> fs[e], textFile |-> textFile[e], textCache |-> textCache[e]]

\* an existing uploads directory counted as content, whatever it holds
hasEnvironmentContent_DirCounts(st) ==
  LET hasFiles == st.s.dir
      fileText == st.textFile # NoText /\ Trim(st.textFile) # ""
      hasText == IF ~fileText /\ st.textCache # NoText
                 THEN Trim(st.textCache) # ""
                 ELSE fileText
  IN hasFiles \/ hasText

hasEnvironmentContent(st) ==
  LET hasFiles == st.s.dir /\ existsSync(st.s.files, LivePath)
      fileText == st.textFile # NoText /\ Trim(st.textFile) # ""
      hasText == IF ~fileText /\ st.textCache # NoText
                 THEN Trim(st.textCache) # ""
                 ELSE fileText
  IN hasFiles \/ hasText

\* the guard on the default environment left out
cleanupEmptyEnvironment_NoGuard(e, st) ==
  LET s1 == cleanupOrphanedVersionFolders(st.s)
      st1 == [st EXCEPT !.s = s1]
  IN IF hasEnvironmentContent(st1) THEN st1
     ELSE [s |-> IF s1.dir /\ ~existsSync(s1.files, LivePath) /\ ~s1.versionsDir
                 THEN [s1 EXCEPT !.dir = FALSE] ELSE s1,
           textFile |-> IF st.textFile # NoText /\ Trim(st.textFile) = ""
                        THEN NoText ELSE st.textFile,
           textCache |-> IF st.textCache # NoText /\ Trim(st.textCache) = ""
                         THEN NoText ELSE st.textCache]

cleanupEmptyEnvironment(e, st) ==
  LET s1 == cleanupOrphanedVersionFolders(st.s)
      st1 == [st EXCEPT !.s = s1]
  IN IF e = DefaultEnv THEN st1
     ELSE IF hasEnvironmentContent(st1) THEN st1
     ELSE [s |-> IF s1.dir /\ ~existsSync(s1.files, LivePath) /\ ~s1.versionsDir
                 THEN [s1 EXCEPT !.dir = FALSE] ELSE s1,
           textFile |-> IF st.textFile # NoText /\ Trim(st.textFile) = ""
                        THEN NoText ELSE st.textFile,
           textCache |-> IF st.textCache # NoText /\ Trim(st.textCache) = ""
                         THEN NoText ELSE st.textCache]

\* cleanupAllEmptyEnvironments, for one environment: the pass over the uploads
\* listing, then the pass over the text-file listing
SweepEnvironment(e, st) ==
  LET st1 == IF ~st.s.dir THEN st
             ELSE IF e = DefaultEnv
                  THEN [st EXCEPT !.s = cleanupOrphanedVersionFolders(st.s)]
                  ELSE cleanupEmptyEnvironment(e, st)
  IN IF st1.textFile # NoText /\ e # DefaultEnv
     THEN cleanupEmptyEnvironment(e, st1)
     ELSE st1

readSharedTextFromFile(st) ==
  [st EXCEPT !.textCache = IF st.textFile # NoText THEN st.textFile ELSE ""]

\* the file written whatever the text: an empty text leaves an empty file
writeSharedTextToFile_Always(st, text) ==
  [st EXCEPT !.textFile = text, !.textCache = text]

\* the cache left as it was: only the file is written
writeSharedTextToFile_NoCache(st, text) ==
  [st EXCEPT !.textFile = IF Trim(text) # "" THEN text ELSE NoText]

writeSharedTextToFile(st, text) ==
  [st EXCEPT !.textFile = IF Trim(text) # "" THEN text ELSE NoText,
             !.textCache = text]

getSharedText(st) ==
  IF st.textCache = NoText THEN readSharedTextFromFile(st) ELSE st

\* ------------------------------------------------------------------ state
\* the last response sent: id is the version or upload id the request named (or
\* the one the response reports), info the numbers the response body carries
Response(op, e, status, msg, id, info) ==
  [op |-> op, env |-> e, status |-> status, msg |-> msg, id |-> id, info |-> info]

InitAnyName ==
  /\ now = 0
  /\ nextId = 1
  /\ fs = [e \in Envs |-> EmptyEnv]
  /\ textFile = [e \in Envs |-> NoText]
  /\ textCache = [e \in Envs |-> IF e = DefaultEnv THEN "" ELSE NoText]
  /\ gcPending = [e \in Envs |-> 0]
  /\ uploadSessions = [u \in {} |-> 0]
  /\ tempDir = [p \in {} |-> 0]
  /\ nextUpload = 1
  /\ fileName \in FileNames
  /\ lastText = [e \in Envs |-> NoText]
  /\ completed = {}
  /\ orphanedCount = 0
  /\ orig = [v \in 1..MaxVersions |-> <<>>]
  /\ promoted = [e \in Envs |-> FALSE]
  /\ deleted = {}
  /\ via = DefaultEnv
  /\ result = Response("none", DefaultEnv, 0, "", 0, <<>>)

\* the file the model follows is doc.txt, except where its name matters
Init == InitAnyName /\ fileName = "doc.txt"

SetEnv(e, st) ==
  /\ fs' = [fs EXCEPT ![e] = st.s]
  /\ textFile' = [textFile EXCEPT ![e] = st.textFile]
  /\ textCache' = [textCache EXCEPT ![e] = st.textCache]

\* setTimeout(() => cleanupEmptyEnvironment(env), 1000)
ScheduleCleanup(e) == gcPending' = [gcPending EXCEPT ![e] = @ + 1]

\* the clock behind new Date(): it advances between requests, or not
Tick ==
  /\ now < MaxTime
  /\ now' = now + 1
  /\ UNCHANGED <<completed, fileName, via, orphanedCount, lastText, nextId, storeVars, uploadVars, orig, promoted, deleted, result>>

\* POST /:environment/upload with one file
Upload(e, source) ==
  /\ nextId <= MaxVersions
  /\ LET r == createNewVersion(fs[e], nextId, now, source)
     IN /\ fs' = [fs EXCEPT ![e] = r.state]
        /\ result' = Response("upload", e, 200, "", nextId, <<Len(r.metadata.versions)>>)
  /\ nextId' = nextId + 1
  /\ orig' = [orig EXCEPT ![nextId] = source]
  /\ promoted' = [promoted EXCEPT ![e] = FALSE]
  /\ UNCHANGED <<completed, fileName, via, orphanedCount, lastText, now, textFile, textCache, gcPending, uploadVars, deleted>>

\* POST /:environment/upload when createNewVersion throws at step failAt: the
\* catch answers 500 and undoes nothing
UploadFails(e, source, failAt) ==
  /\ LET r == createNewVersionFailing(fs[e], failAt, source)
     IN /\ r.reached
        /\ fs' = [fs EXCEPT ![e] = r.state]
        /\ result' = Response("upload", e, 500, "Error processing uploaded file(s)", 0, <<>>)
  /\ UNCHANGED <<completed, fileName, via, orphanedCount, lastText, now, nextId, textFile, textCache, gcPending,
                 uploadVars, orig, promoted, deleted>>

\* DELETE /:environment/files/:filename?version=... (route = "env") and
\* DELETE /files/:filename?version=... (route = "root", default environment)
DeleteVersion(e, versionId, route) ==
  /\ route = "root" => e = DefaultEnv
  /\ LET r == deleteFileVersion(fs[e], versionId)
     IN IF ~r.ok
        THEN /\ result' = Response("delete", e, 404, "Version not found", versionId, <<>>)
             /\ UNCHANGED <<fs, gcPending, promoted, deleted>>
        ELSE /\ route = "env" => gcPending[e] < MaxPending
             /\ fs' = [fs EXCEPT ![e] = cleanupOrphanedVersionFolders(r.state)]
             /\ IF route = "env" THEN ScheduleCleanup(e) ELSE UNCHANGED gcPending
             /\ promoted' = [promoted EXCEPT ![e] =
                               IF versionId = readFileMetadata(fs[e]).currentVersion.versionId
                               THEN FALSE ELSE @]
             /\ deleted' = deleted \cup {versionId}
             /\ result' = Response("delete", e, 200, "", versionId, <<Len(r.metadata.versions)>>)
  /\ UNCHANGED <<completed, fileName, via, orphanedCount, lastText, now, nextId, textFile, textCache, uploadVars, orig>>

RECURSIVE DeleteEach(_, _)
DeleteEach(s, versions) ==
  IF versions = <<>> THEN [ok |-> TRUE, state |-> s]
  ELSE LET r == deleteFileVersion(s, Head(versions).versionId)
       IN IF r.ok THEN DeleteEach(r.state, Tail(versions))
          ELSE [ok |-> FALSE, state |-> r.state]

VersionIds(metadata) == {metadata.versions[i].versionId : i \in 1..Len(metadata.versions)}

\* DELETE /:environment/files/:filename and DELETE /files/:filename, no version
DeleteFile(e, route) ==
  /\ route = "root" => e = DefaultEnv
  /\ LET metadata == readFileMetadata(fs[e])
         r == DeleteEach(fs[e], metadata.versions)
     IN IF metadata.versions = <<>>
        THEN /\ result' = Response("deleteFile", e, 404, "File not found", 0, <<>>)
             /\ UNCHANGED <<fs, gcPending, promoted, deleted>>
        ELSE /\ route = "env" => gcPending[e] < MaxPending
             /\ r.ok
             /\ fs' = [fs EXCEPT ![e] = cleanupOrphanedVersionFolders(r.state)]
             /\ IF route = "env" THEN ScheduleCleanup(e) ELSE UNCHANGED gcPending
             /\ promoted' = [promoted EXCEPT ![e] = FALSE]
             /\ deleted' = deleted \cup VersionIds(metadata)
             /\ result' = Response("deleteFile", e, 200, "", 0, <<>>)
  /\ UNCHANGED <<completed, fileName, via, orphanedCount, lastText, now, nextId, textFile, textCache, uploadVars, orig>>

\* the current copy archived before the checks: a promote of the current
\* version writes its bytes into the version directory
Promote_Eager(e, versionId) ==
  /\ LET s == fs[e]
         metadata == readFileMetadata(s)
         found == FindVersion(metadata, versionId)
         versionPath == getFileVersionPath(s, versionId)
         currentVersionPath == getFileVersionPath(s, metadata.currentVersion.versionId)
         files1 == IF metadata.currentVersion # NullVersion /\ existsSync(s.files, LivePath)
                   THEN copyFileSync(s.files, LivePath, currentVersionPath)
                   ELSE s.files
         files2 == copyFileSync(files1, versionPath, LivePath)
         version == metadata.versions[CHOOSE i \in found : TRUE]
     IN IF found = {}
        THEN /\ result' = Response("promote", e, 404, "Version not found", versionId, <<>>)
             /\ UNCHANGED <<fs, promoted>>
        ELSE IF versionId = metadata.currentVersion.versionId
        THEN /\ result' = Response("promote", e, 200, "Version is already current", versionId, <<>>)
             /\ fs' = [fs EXCEPT ![e] =
                         [s EXCEPT !.files = IF existsSync(s.files, LivePath)
                                            THEN copyFileSync(s.files, LivePath, versionId)
                                            ELSE s.files]]
             /\ UNCHANGED promoted
        ELSE IF ~existsSync(s.files, versionPath)
        THEN /\ result' = Response("promote", e, 404, "Version file not found", versionId, <<>>)
             /\ UNCHANGED <<fs, promoted>>
        ELSE /\ fs' = [fs EXCEPT ![e] =
                         writeFileMetadata([s EXCEPT !.files = files2],
                                           [metadata EXCEPT !.currentVersion = version])]
             /\ promoted' = [promoted EXCEPT ![e] = TRUE]
             /\ result' = Response("promote", e, 200, "Version promoted to current", versionId, <<>>)
  /\ UNCHANGED <<completed, fileName, via, orphanedCount, lastText, now, nextId, textFile, textCache, gcPending, uploadVars, orig, deleted>>

\* PUT /:environment/files/:filename/versions/:versionId/promote
Promote(e, versionId) ==
  /\ LET s == fs[e]
         metadata == readFileMetadata(s)
         found == FindVersion(metadata, versionId)
         versionPath == getFileVersionPath(s, versionId)
         currentVersionPath == getFileVersionPath(s, metadata.currentVersion.versionId)
         files1 == IF metadata.currentVersion # NullVersion /\ existsSync(s.files, LivePath)
                   THEN copyFileSync(s.files, LivePath, currentVersionPath)
                   ELSE s.files
         files2 == copyFileSync(files1, versionPath, LivePath)
         version == metadata.versions[CHOOSE i \in found : TRUE]
     IN IF found = {}
        THEN /\ result' = Response("promote", e, 404, "Version not found", versionId, <<>>)
             /\ UNCHANGED <<fs, promoted>>
        ELSE IF versionId = metadata.currentVersion.versionId
        THEN /\ result' = Response("promote", e, 200, "Version is already current", versionId, <<>>)
             /\ UNCHANGED <<fs, promoted>>
        ELSE IF ~existsSync(s.files, versionPath)
        THEN /\ result' = Response("promote", e, 404, "Version file not found", versionId, <<>>)
             /\ UNCHANGED <<fs, promoted>>
        ELSE /\ fs' = [fs EXCEPT ![e] =
                         writeFileMetadata([s EXCEPT !.files = files2],
                                           [metadata EXCEPT !.currentVersion = version])]
             /\ promoted' = [promoted EXCEPT ![e] = TRUE]
             /\ result' = Response("promote", e, 200, "Version promoted to current", versionId, <<>>)
  /\ UNCHANGED <<completed, fileName, via, orphanedCount, lastText, now, nextId, textFile, textCache, gcPending, uploadVars, orig, deleted>>

\* PUT /:environment and the socket's textChange
SetText(e, text) ==
  /\ gcPending[e] < MaxPending
  /\ SetEnv(e, writeSharedTextToFile(EnvState(e), text))
  /\ ScheduleCleanup(e)
  /\ lastText' = [lastText EXCEPT ![e] = text]
  /\ result' = Response("setText", e, 200, "", 0, <<>>)
  /\ UNCHANGED <<completed, fileName, via, orphanedCount, now, nextId, uploadVars, orig, promoted, deleted>>

\* GET /:environment
GetText(e) ==
  /\ SetEnv(e, getSharedText(EnvState(e)))
  /\ result' = Response("getText", e, 200, "", 0, <<>>)
  /\ UNCHANGED <<completed, fileName, via, orphanedCount, lastText, now, nextId, gcPending, uploadVars, orig, promoted, deleted>>

\* the delayed check scheduled by a delete or a text update fires
DelayedCleanup(e) ==
  /\ gcPending[e] > 0
  /\ gcPending' = [gcPending EXCEPT ![e] = @ - 1]
  /\ SetEnv(e, cleanupEmptyEnvironment(e, EnvState(e)))
  /\ UNCHANGED <<completed, fileName, via, orphanedCount, lastText, now, nextId, uploadVars, orig, promoted, deleted, result>>

\* setInterval(cleanupAllEmptyEnvironments, 5 min)
cleanupAllEmptyEnvironments ==
  /\ fs' = [e \in Envs |-> SweepEnvironment(e, EnvState(e)).s]
  /\ textFile' = [e \in Envs |-> SweepEnvironment(e, EnvState(e)).textFile]
  /\ textCache' = [e \in Envs |-> SweepEnvironment(e, EnvState(e)).textCache]
  /\ UNCHANGED <<completed, fileName, via, orphanedCount, lastText, now, nextId, gcPending, uploadVars, orig, promoted, deleted, result>>

\* ---------------------------------------------------------- chunk assembler
ChunkPath(uploadId, chunkIndex) == <<uploadId, chunkIndex>>

\* temp/complete-<uploadId>-<Date.now()>.tmp
CombinedPath(uploadId) == <<uploadId, -1>>

\* the ids a client may name: the last one is never allocated
UploadIds == 1..(MaxUploads + 1)

\* JavaScript's !v for a request parameter that is absent or a number
Falsy(v) == v = Missing \/ v = 0

\* a file assembled from a partial set of chunks: the first one only
Concat_FirstOnly(files, uploadId, n) ==
  IF n = 0 THEN <<>> ELSE files[ChunkPath(uploadId, 0)]

RECURSIVE Concat(_, _, _)
\* Buffer.concat of the chunk files 0..n-1 in index order
Concat(files, uploadId, n) ==
  IF n = 0 THEN <<>>
  ELSE Concat(files, uploadId, n - 1) \o files[ChunkPath(uploadId, n - 1)]

\* the removal forgotten: every file and session stays
RemovePaths_None(files, paths) == files

RemovePaths(files, paths) == [p \in (DOMAIN files) \ paths |-> files[p]]

\* POST /:environment/upload/initiate
\* POST /:environment/upload/initiate, with at most limit sessions ever opened
InitiateWithin(limit, e, fileNameGiven, fileSize, totalChunks) ==
  /\ IF ~fileNameGiven \/ Falsy(fileSize) \/ Falsy(totalChunks)
     THEN /\ result' = Response("initiate", e, 400, "Missing required parameters", 0, <<>>)
          /\ UNCHANGED <<uploadSessions, nextUpload>>
     ELSE /\ nextUpload <= limit
          /\ uploadSessions' =
               [u \in (DOMAIN uploadSessions) \cup {nextUpload} |->
                  IF u = nextUpload
                  THEN [fileSize |-> fileSize, totalChunks |-> totalChunks,
                        uploadedChunks |-> 0, chunks |-> {}, environmentName |-> e,
                        createdAt |-> now, lastActivity |-> NoTime,
                        status |-> "active", canceledAt |-> NoTime]
                  ELSE uploadSessions[u]]
          /\ nextUpload' = nextUpload + 1
          /\ result' = Response("initiate", e, 200, "", nextUpload, <<>>)
  /\ UNCHANGED <<completed, fileName, via, orphanedCount, lastText, now, nextId, storeVars, tempDir, orig, promoted, deleted>>

Initiate(e, fileNameGiven, fileSize, totalChunks) ==
  InitiateWithin(MaxUploads, e, fileNameGiven, fileSize, totalChunks)

\* The finish callback of the chunk route once the session is found: one
\* file per (uploadId, chunkIndex), the chunk map entry, the count, the time
StoreChunk_SharedBuffer(sessions, dir, t, uploadId, chunkIndex, chunk) ==
  [uploadSessions |->
     [sessions EXCEPT ![uploadId] =
        [sessions[uploadId] EXCEPT !.chunks = @ \cup {chunkIndex},
                  !.uploadedChunks = @ + 1,
                  !.lastActivity = t]],
   tempDir |-> writeFileSync(dir, ChunkPath(uploadId, 0), chunk)]

StoreChunk(sessions, dir, t, uploadId, chunkIndex, chunk) ==
  [uploadSessions |->
     [sessions EXCEPT ![uploadId] =
        [sessions[uploadId] EXCEPT !.chunks = @ \cup {chunkIndex},
                  !.uploadedChunks = @ + 1,
                  !.lastActivity = t]],
   tempDir |-> writeFileSync(dir, ChunkPath(uploadId, chunkIndex), chunk)]

\* POST /:environment/upload/chunk, the busboy 'finish' handler
ReceiveChunk(uploadId, chunkIndex, chunk) ==
  /\ IF uploadId \notin DOMAIN uploadSessions
     THEN /\ result' = Response("chunk", DefaultEnv, 404, "Upload session not found", uploadId, <<>>)
          /\ UNCHANGED <<uploadSessions, tempDir>>
     ELSE LET session == uploadSessions[uploadId]
              stored == StoreChunk(uploadSessions, tempDir, now, uploadId, chunkIndex, chunk)
          IN /\ session.uploadedChunks < MaxReceived
             /\ tempDir' = stored.tempDir
             /\ uploadSessions' = stored.uploadSessions
             /\ result' = Response("chunk", DefaultEnv, 200, "", uploadId,
                                   <<session.uploadedChunks + 1, session.totalChunks>>)
  /\ UNCHANGED <<completed, fileName, via, orphanedCount, lastText, now, nextId, storeVars, nextUpload, orig, promoted, deleted>>

\* the check as "fewer than": a session that counted too many chunks passes
IsIncomplete_Less(session) == session.uploadedChunks < session.totalChunks

\* the completeness check of POST /:environment/upload/complete
IsIncomplete(session) == session.uploadedChunks # session.totalChunks

\* session.environmentName || sanitizedEnv
sessionEnvironment_Route(session, sanitizedEnv) ==
  sanitizedEnv

sessionEnvironment(session, sanitizedEnv) ==
  IF session.environmentName # "" THEN session.environmentName ELSE sanitizedEnv

\* POST /:environment/upload/complete received on the endpoint of sanitizedEnv
CompleteVia(sanitizedEnv, uploadId) ==
  /\ IF uploadId \notin DOMAIN uploadSessions
     THEN /\ result' = Response("complete", sanitizedEnv, 404, "Upload session not found", uploadId, <<>>)
          /\ UNCHANGED <<nextId, fs, uploadSessions, tempDir, orig, promoted, completed>>
     ELSE LET session == uploadSessions[uploadId]
              e == sessionEnvironment(session, sanitizedEnv)
              expected == {ChunkPath(uploadId, i) : i \in 0..(session.totalChunks - 1)}
              held == {ChunkPath(uploadId, i) : i \in session.chunks}
          IN IF IsIncomplete(session)
             THEN /\ result' = Response("complete", e, 400, "Incomplete upload", uploadId,
                                        <<session.uploadedChunks, session.totalChunks>>)
                  /\ UNCHANGED <<nextId, fs, uploadSessions, tempDir, orig, promoted, completed>>
             ELSE IF \E i \in 0..(session.totalChunks - 1) :
                        i \notin session.chunks \/ ~existsSync(tempDir, ChunkPath(uploadId, i))
             THEN /\ tempDir' = RemovePaths(tempDir, held)
                  /\ uploadSessions' = RemovePaths(uploadSessions, {uploadId})
                  /\ result' = Response("complete", e, 500, "Failed to combine file chunks", uploadId, <<>>)
                  /\ UNCHANGED <<nextId, fs, orig, promoted, completed>>
             ELSE LET combinedData == Concat(tempDir, uploadId, session.totalChunks)
                      r == createNewVersion(fs[e], nextId, now, combinedData)
                  IN /\ nextId <= MaxVersions
                     /\ fs' = [fs EXCEPT ![e] = r.state]
                     /\ nextId' = nextId + 1
                     /\ orig' = [orig EXCEPT ![nextId] = combinedData]
                     /\ promoted' = [promoted EXCEPT ![e] = FALSE]
                     /\ tempDir' = RemovePaths(tempDir, expected)
                     /\ uploadSessions' = RemovePaths(uploadSessions, {uploadId})
                     /\ completed' = completed \cup {uploadId}
                     /\ result' = Response("complete", e, 200, "", nextId,
                                           <<Len(r.metadata.versions)>>)
  /\ via' = sanitizedEnv
  /\ UNCHANGED <<fileName, orphanedCount, lastText, now, textFile, textCache, gcPending, nextUpload, deleted>>

\* POST /upload/complete, and a client that completes on the default endpoint
Complete(uploadId) ==
  CompleteVia(DefaultEnv, uploadId)

\* POST /:environment/upload/complete when createNewVersion throws at step
\* failAt: every chunk was read and the combined file written (line 1266); the
\* catch removes the chunk files of the chunk map and the session
CompleteFails(uploadId, failAt) ==
  /\ uploadId \in DOMAIN uploadSessions
  /\ LET session == uploadSessions[uploadId]
         e == session.environmentName
         held == {ChunkPath(uploadId, i) : i \in session.chunks}
         combinedData == Concat(tempDir, uploadId, session.totalChunks)
         r == createNewVersionFailing(fs[e], failAt, combinedData)
     IN /\ ~IsIncomplete(session)
        /\ \A i \in 0..(session.totalChunks - 1) :
             i \in session.chunks /\ existsSync(tempDir, ChunkPath(uploadId, i))
        /\ r.reached
        /\ fs' = [fs EXCEPT ![e] = r.state]
        /\ tempDir' = RemovePaths(writeFileSync(tempDir, CombinedPath(uploadId), combinedData),
                                  held)
        /\ uploadSessions' = RemovePaths(uploadSessions, {uploadId})
        /\ result' = Response("complete", e, 500, "Failed to combine file chunks", uploadId, <<>>)
  /\ UNCHANGED <<completed, fileName, via, orphanedCount, lastText, now, nextId, textFile, textCache, gcPending,
                 nextUpload, orig, promoted, deleted>>

\* GET /:environment/upload/status/:uploadId; progress is
\* (uploadedChunks / totalChunks) * 100, whole percents here
Status(uploadId) ==
  /\ IF uploadId \notin DOMAIN uploadSessions
     THEN result' = Response("status", DefaultEnv, 404, "Upload session not found", uploadId, <<>>)
     ELSE LET session == uploadSessions[uploadId]
          IN result' = Response("status", session.environmentName, 200, "", uploadId,
                                <<session.uploadedChunks, session.totalChunks,
                                  (session.uploadedChunks * 100) \div session.totalChunks>>)
  /\ UNCHANGED <<completed, fileName, via, orphanedCount, lastText, now, nextId, storeVars, uploadVars, orig, promoted, deleted>>

\* an unknown session answered with success
Cancel_Silent(uploadId) ==
  /\ IF uploadId \notin DOMAIN uploadSessions
     THEN /\ result' = Response("cancel", DefaultEnv, 200, "Upload session marked for cancellation", uploadId, <<>>)
          /\ UNCHANGED uploadSessions
     ELSE /\ uploadSessions' = [uploadSessions EXCEPT ![uploadId] =
                                  [@ EXCEPT !.canceledAt = now, !.status = "canceled"]]
          /\ result' = Response("cancel", uploadSessions[uploadId].environmentName, 200,
                                "Upload session marked for cancellation", uploadId, <<>>)
  /\ UNCHANGED <<completed, fileName, via, orphanedCount, lastText, now, nextId, storeVars, tempDir, nextUpload, orig, promoted, deleted>>

\* the cancel that cleans up at once: chunk files and session deleted
Cancel_Delete(uploadId) ==
  /\ IF uploadId \notin DOMAIN uploadSessions
     THEN /\ result' = Response("cancel", DefaultEnv, 404, "Upload session not found", uploadId, <<>>)
          /\ UNCHANGED <<uploadSessions, tempDir>>
     ELSE /\ tempDir' = RemovePaths(tempDir, {ChunkPath(uploadId, i) : i \in uploadSessions[uploadId].chunks})
          /\ uploadSessions' = RemovePaths(uploadSessions, {uploadId})
          /\ result' = Response("cancel", uploadSessions[uploadId].environmentName, 200,
                                "Upload session marked for cancellation", uploadId, <<>>)
  /\ UNCHANGED <<completed, fileName, via, orphanedCount, lastText, now, nextId, storeVars, nextUpload, orig, promoted, deleted>>

\* DELETE /:environment/upload/cancel/:uploadId
Cancel(uploadId) ==
  /\ IF uploadId \notin DOMAIN uploadSessions
     THEN /\ result' = Response("cancel", DefaultEnv, 404, "Upload session not found", uploadId, <<>>)
          /\ UNCHANGED uploadSessions
     ELSE /\ uploadSessions' = [uploadSessions EXCEPT ![uploadId] =
                                  [@ EXCEPT !.canceledAt = now, !.status = "canceled"]]
          /\ result' = Response("cancel", uploadSessions[uploadId].environmentName, 200,
                                "Upload session marked for cancellation", uploadId, <<>>)
  /\ UNCHANGED <<completed, fileName, via, orphanedCount, lastText, now, nextId, storeVars, tempDir, nextUpload, orig, promoted, deleted>>

\* ------------------------------------------------------------ session reaper
\* The reaper's clock counts in units of the staleness threshold (2 minutes);
\* the expiry threshold (30 minutes, 15 units) is shortened to 2 units, which
\* keeps it above the staleness threshold and within reach of the clock.
staleThreshold == 1
maxAge == 2

\* time passes between two requests or timer callbacks
Elapse ==
  /\ now < MaxClock
  /\ now' = now + 1
  /\ UNCHANGED <<completed, fileName, via, orphanedCount, lastText, nextId, storeVars, uploadVars,
                 orig, promoted, deleted, result>>

\* no expiry by age: only cancellation and staleness make a session eligible
shouldCleanup_NoExpiry(session, t) ==
  LET lastActivity == IF session.lastActivity # NoTime
                      THEN session.lastActivity ELSE session.createdAt
      timeSinceActivity == t - lastActivity
  IN \/ session.status = "canceled" /\ session.canceledAt # NoTime
     \/ timeSinceActivity > staleThreshold /\ session.status # "canceled"

\* the staleness test with "at least" for "more than"
shouldCleanup_AtThreshold(session, t) ==
  LET age == t - session.createdAt
      lastActivity == IF session.lastActivity # NoTime
                      THEN session.lastActivity ELSE session.createdAt
      timeSinceActivity == t - lastActivity
  IN \/ age > maxAge
     \/ session.status = "canceled" /\ session.canceledAt # NoTime
     \/ timeSinceActivity >= staleThreshold /\ session.status # "canceled"

\* the eligibility computed for one session by cleanupUploadSessions at time t
shouldCleanup(session, t) ==
  LET age == t - session.createdAt
      lastActivity == IF session.lastActivity # NoTime
                      THEN session.lastActivity ELSE session.createdAt
      timeSinceActivity == t - lastActivity
  IN \/ age > maxAge
     \/ session.status = "canceled" /\ session.canceledAt # NoTime
     \/ timeSinceActivity > staleThreshold /\ session.status # "canceled"

\* the names <uploadId>_chunk_<digits>; the combined file of a complete is not one
IsChunkName(p) == p[2] >= 0

\* every chunk file deleted, tracked or not
cleanupOrphanedChunks_All(files, sessions, failing) ==
  RemovePaths(files, {p \in DOMAIN files : IsChunkName(p) /\ p \notin failing})

\* failing: the paths whose unlinkSync throws during this pass (logged, skipped)
cleanupOrphanedChunks(files, sessions, failing) ==
  RemovePaths(files, {p \in DOMAIN files :
                        /\ IsChunkName(p)
                        /\ p[1] \notin DOMAIN sessions
                        /\ p \notin failing})

\* setInterval(cleanupUploadSessions, 10 s); orphanedCount is the number of
\* files the orphan sweep of the pass deleted, which it logs
cleanupUploadSessions(failing) ==
  /\ LET toCleanup == {u \in DOMAIN uploadSessions : shouldCleanup(uploadSessions[u], now)}
         files1 == cleanupOrphanedChunks(tempDir, uploadSessions, failing)
         chunkPaths == {ChunkPath(u, i) : u \in toCleanup, i \in 0..(MaxChunks - 1)}
         mapped == {p \in chunkPaths : p[2] \in uploadSessions[p[1]].chunks}
     IN /\ failing \subseteq DOMAIN tempDir
        /\ orphanedCount' = Cardinality((DOMAIN tempDir) \ (DOMAIN files1))
        /\ tempDir' = RemovePaths(files1, mapped \ failing)
        /\ uploadSessions' = RemovePaths(uploadSessions, toCleanup)
  /\ UNCHANGED <<completed, fileName, via, lastText, now, nextId, storeVars, nextUpload,
                 orig, promoted, deleted, result>>

\* --------------------------------------------------------- specifications
\* the version store of the environment "x"
Next ==
  \/ Tick
  \/ \E source \in Contents : Upload("x", source)
  \/ \E v \in 1..MaxVersions : DeleteVersion("x", v, "env")
  \/ DeleteFile("x", "env")
  \/ \E v \in 1..MaxVersions : Promote("x", v)
  \/ DelayedCleanup("x")
  \/ cleanupAllEmptyEnvironments

Spec == Init /\ [][Next]_vars

\* the environment registry: files and text of both environments, and the GC
\* (the bytes of a file play no part in it: every upload carries <<1>>)
NextEnv ==
  \/ \E e \in Envs : Upload(e, <<1>>)
  \/ \E e \in Envs, route \in {"env", "root"} : DeleteFile(e, route)
  \/ \E e \in Envs, text \in Texts : SetText(e, text)
  \/ \E e \in Envs : GetText(e)
  \/ \E e \in Envs : DelayedCleanup(e)
  \/ cleanupAllEmptyEnvironments

SpecEnv == Init /\ [][NextEnv]_vars

\* the non-default environment with the timers of its GC firing: every delayed
\* check that was scheduled runs, and the periodic sweep keeps running
NextEnvLive ==
  \/ Upload("x", <<1>>)
  \/ DeleteFile("x", "env")
  \/ \E text \in Texts : SetText("x", text)
  \/ GetText("x")
  \/ DelayedCleanup("x")
  \/ cleanupAllEmptyEnvironments

SpecEnvLive ==
  /\ Init
  /\ [][NextEnvLive]_vars
  /\ WF_vars(DelayedCleanup("x"))
  /\ WF_vars(cleanupAllEmptyEnvironments)

\* the chunk assembler, with sessions initiated in the environment "x"
NextUpload ==
  \/ \E totalChunks \in {Missing} \cup 1..MaxChunks : Initiate("x", TRUE, 1, totalChunks)
  \/ \E u \in 1..MaxUploads, i \in 0..(MaxChunks - 1), b \in ByteValues :
        ReceiveChunk(u, i, <<b>>)
  \/ \E u \in 1..MaxUploads : Complete(u)

SpecUpload == Init /\ [][NextUpload]_vars

\* the session registry: every request body of initiate, and chunk, status and
\* cancel requests naming known and unknown sessions (the bytes of a chunk
\* play no part in it: every chunk carries <<1>>)
NextSession ==
  \/ \E fileNameGiven \in BOOLEAN, fileSize \in FileSizes,
        totalChunks \in {Missing} \cup 0..MaxChunks :
        Initiate("x", fileNameGiven, fileSize, totalChunks)
  \/ \E u \in UploadIds, i \in 0..(MaxChunks - 1) : ReceiveChunk(u, i, <<1>>)
  \/ \E u \in UploadIds : Status(u)
  \/ \E u \in UploadIds : Cancel(u)

SpecSession == Init /\ [][NextSession]_vars

\* the chunk assembler when a disk write of createNewVersion can fail
NextUploadFault ==
  \/ NextUpload
  \/ \E u \in 1..MaxUploads, failAt \in FailSteps : CompleteFails(u, failAt)

SpecUploadFault == Init /\ [][NextUploadFault]_vars

\* the version store of "x" when a disk write of createNewVersion can fail
NextStoreFault ==
  \/ Tick
  \/ \E source \in Contents : Upload("x", source)
  \/ \E source \in Contents, failAt \in FailSteps : UploadFails("x", source, failAt)
  \/ \E v \in 1..MaxVersions : DeleteVersion("x", v, "env")
  \/ DeleteFile("x", "env")

SpecStoreFault == Init /\ [][NextStoreFault]_vars

\* the version store of "x" holding a file of either name
NextList ==
  \/ Tick
  \/ \E source \in Contents : Upload("x", source)
  \/ \E v \in 1..MaxVersions : DeleteVersion("x", v, "env")
  \/ DeleteFile("x", "env")
  \/ \E v \in 1..MaxVersions : Promote("x", v)

SpecList == InitAnyName /\ [][NextList]_vars

\* upload sessions over time: chunks, cancels, completes and the reaper; one
\* client, which starts an upload when its previous one has left the registry
NextReaper ==
  \/ Elapse
  \/ DOMAIN uploadSessions = {} /\ Initiate("x", TRUE, 1, MaxChunks)
  \/ \E u \in 1..MaxUploads, i \in 0..(MaxChunks - 1) : ReceiveChunk(u, i, <<i + 1>>)
  \/ \E u \in 1..MaxUploads : Status(u)
  \/ \E u \in 1..MaxUploads : Cancel(u)
  \/ \E u \in 1..MaxUploads : Complete(u)
  \/ cleanupUploadSessions({})

SpecReaper == Init /\ [][NextReaper]_vars

\* uploads left to the reaper, whose unlinkSync may throw for one file of a
\* pass, and completes that may fail while the version is stored
NextReaperFault ==
  \/ Elapse
  \/ DOMAIN uploadSessions = {} /\ Initiate("x", TRUE, 1, MaxChunks)
  \/ \E u \in 1..MaxUploads, i \in 0..(MaxChunks - 1) : ReceiveChunk(u, i, <<i + 1>>)
  \/ \E u \in 1..MaxUploads : Complete(u)
  \/ \E u \in 1..MaxUploads, failAt \in FailSteps : CompleteFails(u, failAt)
  \/ cleanupUploadSessions({})
  \/ \E p \in DOMAIN tempDir : cleanupUploadSessions({p})

SpecReaperFault == Init /\ [][NextReaperFault]_vars

\* the reaper's timer keeps firing and time keeps passing; the clock of the
\* model stops at MaxClock, so uploads start while a session can still outlive
\* the expiry threshold
NextReaperLive ==
  \/ Elapse
  \/ /\ DOMAIN uploadSessions = {}
     /\ now + maxAge < MaxClock
     /\ Initiate("x", TRUE, 1, MaxChunks)
  \/ \E u \in 1..MaxUploads, i \in 0..(MaxChunks - 1) : ReceiveChunk(u, i, <<i + 1>>)
  \/ \E u \in 1..MaxUploads : Cancel(u)
  \/ \E u \in 1..MaxUploads : Complete(u)
  \/ \E u \in 1..MaxUploads, failAt \in FailSteps : CompleteFails(u, failAt)
  \/ cleanupUploadSessions({})

SpecReaperLive ==
  /\ Init
  /\ [][NextReaperLive]_vars
  /\ WF_vars(Elapse)
  /\ WF_vars(cleanupUploadSessions({}))

\* ----------------------------------------------------------------- claims
Versions(e) == readFileMetadata(fs[e]).versions
Current(e) == readFileMetadata(fs[e]).currentVersion
HasLive(e) == existsSync(fs[e].files, LivePath)
Live(e) == fs[e].files[LivePath]
ArchivedIds(e) == (DOMAIN fs[e].files) \ {LivePath}

\* C1: every version listed in metadata.versions is retrievable:
\* getFileVersionPath names an existing file that holds the bytes uploaded for it.
C1_NoVersionLost ==
  \A e \in Envs : \A i \in 1..Len(Versions(e)) :
    LET versionId == Versions(e)[i].versionId
        path == getFileVersionPath(fs[e], versionId)
    IN existsSync(fs[e].files, path) /\ fs[e].files[path] = orig[versionId]

\* C2: when createNewVersion has returned, currentVersion has the latest
\* uploadedAt, the live copy holds the bytes passed to that call, and the live
\* copy is currentVersion's bytes (equal timestamps included).
C2_LiveAgreesAfterCreate ==
  (result.op = "upload" /\ result.status = 200) =>
    LET e == result.env
    IN /\ HasLive(e)
       /\ Live(e) = orig[result.id]
       /\ \A i \in 1..Len(Versions(e)) : Current(e).uploadedAt >= Versions(e)[i].uploadedAt
       /\ Live(e) = orig[Current(e).versionId]

IsEntry(e, version) == \E i \in 1..Len(Versions(e)) : Versions(e)[i] = version
IsNewest(e, version) == \A i \in 1..Len(Versions(e)) : version.uploadedAt >= Versions(e)[i].uploadedAt

\* C3 as stated: currentVersion is always the entry of versions with the
\* maximum uploadedAt, or null when there are no versions.
C3_CurrentIsNewest ==
  \A e \in Envs :
    IF Versions(e) = <<>> THEN Current(e) = NullVersion
    ELSE IsEntry(e, Current(e)) /\ IsNewest(e, Current(e))

\* C3 amended: currentVersion is always an entry of versions (null exactly
\* when there are none), and it has the maximum uploadedAt unless a
\* promoteVersion made an older version current since the last createNewVersion
\* or deletion of the current version.
C3_CurrentIsNewestUnlessPromoted ==
  \A e \in Envs :
    IF Versions(e) = <<>> THEN Current(e) = NullVersion
    ELSE IsEntry(e, Current(e)) /\ (~promoted[e] => IsNewest(e, Current(e)))

\* C3 witness: a delete has left two versions of different age, no promotion
\* is in force, and the newer one is current
C3_Witness ==
  /\ result.op = "delete" /\ result.status = 200
  /\ ~promoted["x"]
  /\ Len(Versions("x")) = 2
  /\ \E i \in 1..2 : Versions("x")[i].uploadedAt < Current("x").uploadedAt

\* C4: when promoteVersion(v) has succeeded, the live copy holds exactly the
\* bytes originally stored for v, and currentVersion is v.
C4_PromoteRoundTrip ==
  (result.op = "promote" /\ result.status = 200) =>
    /\ HasLive(result.env)
    /\ Live(result.env) = orig[result.id]
    /\ Current(result.env).versionId = result.id

\* C8: after the last remaining version of a file was deleted, its metadata
\* file and its version directory are gone, no archived blob is left, and
\* readFileMetadata returns the empty record.
C8_LastDeleteRemovesAll ==
  ((result.op = "delete" /\ result.status = 200 /\ result.info = <<0>>)
     \/ (result.op = "deleteFile" /\ result.status = 200)) =>
    LET s == fs[result.env]
    IN /\ s.metadataFile = <<>>
       /\ ~s.fileVersionsDir
       /\ ArchivedIds(result.env) = {}
       /\ readFileMetadata(s) = [versions |-> <<>>, currentVersion |-> NullVersion]

\* C8 witness: the last version is deleted after an earlier version had been
\* archived, promoted back by a delete and deleted in turn
C8_Witness ==
  /\ result.op = "delete" /\ result.status = 200 /\ result.info = <<0>>
  /\ Cardinality(deleted) >= 2
  /\ orig[result.id] # <<>>

\* C9: a deleteFileVersion of a versionId that was deleted before fails with
\* 'Version not found' and leaves versions, currentVersion, the live copy and
\* the archived files as they were.
C9_SecondDeleteNotFound ==
  [][\A v \in 1..MaxVersions :
       (v \in deleted /\ DeleteVersion("x", v, "env")) =>
         /\ result'.status = 404
         /\ result'.msg = "Version not found"
         /\ fs' = fs]_vars

\* C9 witness: a second delete was refused while other versions remain
C9_Witness ==
  /\ result.op = "delete" /\ result.status = 404
  /\ result.id \in deleted
  /\ Versions("x") # <<>>
  /\ ArchivedIds("x") # {}

TextEmpty(e) ==
  /\ textFile[e] # NoText => Trim(textFile[e]) = ""
  /\ textCache[e] # NoText => Trim(textCache[e]) = ""

\* C10: in a non-default environment with empty text whose one file was
\* uploaded and then deleted, a GC check (delayed or periodic) leaves neither
\* the uploads directory nor the text file.
C10_EmptyEnvironmentCollected ==
  [][\A e \in Envs \ {DefaultEnv} :
       (/\ DelayedCleanup(e) \/ cleanupAllEmptyEnvironments
        /\ fs[e].dir /\ ~HasLive(e) /\ TextEmpty(e)) =>
         (~fs'[e].dir /\ textFile'[e] = NoText)]_vars

\* C10 witness: the file of "x" was deleted and a GC check has since removed
\* the directory the upload had created
C10_Witness ==
  /\ result.op = "deleteFile" /\ result.status = 200 /\ result.env = "x"
  /\ ~fs["x"].dir
  /\ textFile["x"] = NoText

HasAllChunks(session) == \A i \in 0..(session.totalChunks - 1) : i \in session.chunks

\* C5: once every index 0..n-1 of a session has been received at least once,
\* complete succeeds and stores the concatenation of the chunks in index order.
C5_CompleteOnceAllReceived ==
  [][\A u \in 1..MaxUploads :
       (/\ u \in DOMAIN uploadSessions
        /\ HasAllChunks(uploadSessions[u])
        /\ nextId <= MaxVersions
        /\ Complete(u)) =>
         LET session == uploadSessions[u]
         IN /\ result'.status = 200
            /\ fs'[session.environmentName].files[LivePath] =
                 Concat(tempDir, u, session.totalChunks)]_vars

\* C6: uploadedChunks of every session is the number of distinct chunk
\* indices received so far.
C6_CountsDistinctIndices ==
  \A u \in DOMAIN uploadSessions :
    uploadSessions[u].uploadedChunks = Cardinality(uploadSessions[u].chunks)

\* C7: complete on a session whose uploadedChunks differs from totalChunks
\* answers 'Incomplete upload' with both numbers and changes nothing: session,
\* chunk files and version store stay as they were.
C7_IncompleteChangesNothing ==
  [][\A u \in 1..MaxUploads :
       (/\ u \in DOMAIN uploadSessions
        /\ uploadSessions[u].uploadedChunks # uploadSessions[u].totalChunks
        /\ Complete(u)) =>
         /\ result'.status = 400
         /\ result'.msg = "Incomplete upload"
         /\ result'.info = <<uploadSessions[u].uploadedChunks, uploadSessions[u].totalChunks>>
         /\ UNCHANGED <<uploadSessions, tempDir, fs, nextId>>]_vars

\* C7 witness: an incomplete session was refused and still holds a chunk
C7_Witness ==
  /\ result.op = "complete" /\ result.status = 400
  /\ result.id \in DOMAIN uploadSessions
  /\ uploadSessions[result.id].chunks # {}
  /\ \E p \in DOMAIN tempDir : p[1] = result.id

\* C11: no GC check (delayed or periodic) and no delete removes the default
\* environment's uploads directory, its text file or its text-cache entry,
\* whatever the environment holds.
C11_DefaultImmortal ==
  [][((\E e \in Envs : DelayedCleanup(e))
        \/ cleanupAllEmptyEnvironments
        \/ (\E e \in Envs, route \in {"env", "root"} : DeleteFile(e, route))) =>
       /\ fs[DefaultEnv].dir => fs'[DefaultEnv].dir
       /\ textFile'[DefaultEnv] = textFile[DefaultEnv]
       /\ textCache'[DefaultEnv] = textCache[DefaultEnv]]_vars

\* C11 witness: the default environment's one file was deleted and its text
\* set to blanks; the delayed check of that text update has run (no check is
\* pending any more) and the directory and the cache entry are still there
C11_Witness ==
  /\ result.op = "setText" /\ result.env = DefaultEnv
  /\ gcPending[DefaultEnv] = 0
  /\ fs[DefaultEnv].dir /\ ~HasLive(DefaultEnv) /\ ~fs[DefaultEnv].versionsDir
  /\ textCache[DefaultEnv] = " "

\* C12: a createNewVersion call that fails (at the archive copy, the source
\* copy or the metadata write) leaves the persisted metadata, the live copy
\* and the archived version files as they were before the call.
C12_FailedCreateChangesNothing ==
  [][\A source \in Contents, failAt \in FailSteps :
       UploadFails("x", source, failAt) =>
         /\ fs'["x"].metadataFile = fs["x"].metadataFile
         /\ fs'["x"].files = fs["x"].files]_vars

\* C13: when a complete that passed the completeness check has failed, every
\* temporary resource of the session is gone: its chunk files, the combined
\* temporary file and the session entry.
C13_FailedCompleteFreesAll ==
  (result.op = "complete" /\ result.status = 500) =>
    /\ result.id \notin DOMAIN uploadSessions
    /\ \A p \in DOMAIN tempDir : p[1] # result.id

\* what getSharedText(e) returns in the current state
TextRead(e) == getSharedText(EnvState(e)).textCache

\* C14 as stated: getSharedText(env) returns exactly the text of the most
\* recent setSharedText(env, text), also after a GC check or a sweep.
C14_LastWriteWins ==
  \A e \in Envs : lastText[e] # NoText => TextRead(e) = lastText[e]

\* C14 amended: getSharedText(env) returns the text of the most recent
\* setSharedText(env, text), except that in a non-default environment a text
\* of blanks only may read back as the empty string (a GC check drops it).
C14_LastWriteWinsUpToBlank ==
  \A e \in Envs :
    lastText[e] # NoText =>
      \/ TextRead(e) = lastText[e]
      \/ e # DefaultEnv /\ Trim(lastText[e]) = "" /\ TextRead(e) = ""

\* C14 witness: "a" was set in "x", the delayed check of that update has run
\* and the latest read returned "a"
C14_Witness ==
  /\ result.op = "getText" /\ result.env = "x"
  /\ lastText["x"] = "a"
  /\ gcPending["x"] = 0
  /\ textCache["x"] = "a"

\* C15: deleting a file by name, without a version id, succeeds for every
\* file present in the live directory, with or without version metadata:
\* the response is the success message, the live file is gone and no version
\* of it remains.
C15_DeleteByNameSucceeds ==
  [][\A route \in {"env", "root"} :
       (DeleteFile("x", route) /\ HasLive("x")) =>
         /\ result'.status = 200
         /\ ~existsSync(fs'["x"].files, LivePath)
         /\ readFileMetadata(fs'["x"]).versions = <<>>]_vars

\* C16: initiate answers 'Missing required parameters' and registers nothing
\* when one of fileName, fileSize, totalChunks is missing; otherwise it
\* registers exactly one new session under a fresh uploadId, with
\* uploadedChunks 0 and no chunk, and a status asked right away reports
\* uploadedChunks 0 and progress 0.
C16_InitiateRegisters ==
  [][/\ \A fileNameGiven \in BOOLEAN, fileSize \in FileSizes,
           totalChunks \in {Missing} \cup 0..MaxChunks :
          Initiate("x", fileNameGiven, fileSize, totalChunks) =>
            IF ~fileNameGiven \/ fileSize = Missing \/ totalChunks = Missing
            THEN /\ result'.status = 400
                 /\ result'.msg = "Missing required parameters"
                 /\ uploadSessions' = uploadSessions
            ELSE /\ result'.status = 200
                 /\ result'.id \notin DOMAIN uploadSessions
                 /\ DOMAIN uploadSessions' = (DOMAIN uploadSessions) \cup {result'.id}
                 /\ uploadSessions'[result'.id].uploadedChunks = 0
                 /\ uploadSessions'[result'.id].chunks = {}
                 /\ \A u \in DOMAIN uploadSessions : uploadSessions'[u] = uploadSessions[u]
     /\ (result.op = "initiate" /\ result.status = 200 /\ Status(result.id)) =>
          /\ result'.status = 200
          /\ result'.info[1] = 0
          /\ result'.info[3] = 0]_vars

\* C17: receiveChunk, status and cancel for an uploadId that is not in the
\* session registry answer 'Upload session not found' and change nothing: no
\* temp file is written and no session is modified.
C17_UnknownSessionNotFound ==
  [][\A u \in UploadIds :
       (/\ u \notin DOMAIN uploadSessions
        /\ \/ \E i \in 0..(MaxChunks - 1) : ReceiveChunk(u, i, <<1>>)
           \/ Status(u)
           \/ Cancel(u)) =>
         /\ result'.status = 404
         /\ result'.msg = "Upload session not found"
         /\ UNCHANGED <<uploadSessions, tempDir>>]_vars

\* C17 witness: a chunk for an unknown uploadId was refused while another
\* session holds a chunk; no temp file carries the unknown id
C17_Witness ==
  /\ result.op = "chunk" /\ result.status = 404
  /\ result.id \notin DOMAIN uploadSessions
  /\ \E u \in DOMAIN uploadSessions : uploadSessions[u].chunks # {}
  /\ \A p \in DOMAIN tempDir : p[1] # result.id

\* C18: the listing of an environment holds exactly the files that have a
\* live copy; a file stored by an upload with a version that was not deleted
\* appears once, under its name and with its metadata; the version-storage
\* directory is not listed.
C18_ListIsLiveFiles ==
  LET listing == getAllVersionedFiles(fs["x"], fileName)
  IN /\ {f.originalFileName : f \in listing} = (IF HasLive("x") THEN {fileName} ELSE {})
     /\ (\E v \in 1..(nextId - 1) : v \notin deleted) =>
          /\ Cardinality(listing) = 1
          /\ \A f \in listing : /\ f.originalFileName = fileName
                                 /\ f.versions = Versions("x")
                                 /\ f.currentVersion = Current("x")
     /\ \A f \in listing : f.originalFileName # VersionsDirName

\* C19: when promoteVersion of a non-current version succeeds while c is
\* current and its live copy is present, then afterwards the version directory
\* holds c's bytes under c's versionId.
C19_PromoteArchivesCurrent ==
  [][\A v \in 1..MaxVersions :
       (/\ Promote("x", v)
        /\ result'.msg = "Version promoted to current"
        /\ HasLive("x")) =>
         LET c == Current("x").versionId
         IN /\ existsSync(fs'["x"].files, c)
            /\ fs'["x"].files[c] = orig[c]]_vars

\* C20: after deleteFileVersion of the current version with other versions
\* remaining, currentVersion is the remaining version with the maximum
\* uploadedAt, the live copy exists and holds the bytes uploaded for it.
C20_DeleteCurrentPromotesNext ==
  [][\A v \in 1..MaxVersions :
       (/\ DeleteVersion("x", v, "env")
        /\ v = Current("x").versionId
        /\ Len(Versions("x")) >= 2) =>
         LET rest == RemoveAt(Versions("x"), CHOOSE i \in FindVersion(readFileMetadata(fs["x"]), v) : TRUE)
             next == deleteFileVersion(fs["x"], v)
         IN /\ next.metadata.currentVersion.versionId # v
            /\ \E i \in 1..Len(rest) : rest[i] = next.metadata.currentVersion
            /\ \A i \in 1..Len(rest) :
                 next.metadata.currentVersion.uploadedAt >= rest[i].uploadedAt
            /\ existsSync(next.state.files, LivePath)
            /\ next.state.files[LivePath] = orig[next.metadata.currentVersion.versionId]]_vars

\* C21: once a session is marked canceled it never completes: no step taken
\* while it is canceled puts it among the completed uploads or creates a version
C21_CanceledNeverCompletes ==
  [][\A u \in 1..MaxUploads :
       (u \in DOMAIN uploadSessions /\ uploadSessions[u].status = "canceled")
         => (u \notin completed' /\ nextId' = nextId)]_vars

EnvKnown(e) == fs[e].dir \/ textFile[e] # NoText \/ textCache[e] # NoText

\* it holds a file or a non-empty text
EnvHoldsContent(e) ==
  \/ existsSync(fs[e].files, LivePath)
  \/ textFile[e] # NoText /\ Trim(textFile[e]) # ""
  \/ textCache[e] # NoText /\ Trim(textCache[e]) # ""

EnvDestroyed(e) == ~fs[e].dir /\ textFile[e] = NoText /\ textCache[e] = NoText

\* C24: with the sweep's timer firing, a known non-default environment that
\* holds neither files nor non-empty text is eventually destroyed (directory,
\* text file and cache entry gone), unless content arrives first
C24_EmptyEnvironmentDestroyed ==
  \A e \in Envs \ {DefaultEnv} :
    (EnvKnown(e) /\ ~EnvHoldsContent(e)) ~> (EnvDestroyed(e) \/ EnvHoldsContent(e))

\* a delayed GC check or a periodic sweep runs
GcStep == (\E e \in Envs : DelayedCleanup(e)) \/ cleanupAllEmptyEnvironments

\* C25 as stated: a GC step leaves the whole uploads tree of an environment
\* with a live file as it is, and every text file and cache entry whose text
\* is not the empty string
C25_GcKeepsContent ==
  [][GcStep =>
       \A e \in Envs :
         /\ existsSync(fs[e].files, LivePath) => fs'[e] = fs[e]
         /\ (textFile[e] # NoText /\ textFile[e] # "") => textFile'[e] = textFile[e]
         /\ (textCache[e] # NoText /\ textCache[e] # "") => textCache'[e] = textCache[e]]_vars

\* C25: a GC step leaves the whole uploads tree of an environment with a live
\* file as it is (live file, archived versions, metadata), and every text file
\* and cache entry whose text is non-empty after trimming whitespace
C25_GcKeepsContentUpToBlank ==
  [][GcStep =>
       \A e \in Envs :
         /\ existsSync(fs[e].files, LivePath) => fs'[e] = fs[e]
         /\ (textFile[e] # NoText /\ Trim(textFile[e]) # "") => textFile'[e] = textFile[e]
         /\ (textCache[e] # NoText /\ Trim(textCache[e]) # "")
              => textCache'[e] = textCache[e]]_vars

\* the delayed check of a text update has run in an environment that holds a
\* file with an archived version and a text, and all of it is still there
C25_Witness ==
  /\ result.op = "setText" /\ result.env = "x"
  /\ gcPending["x"] = 0
  /\ existsSync(fs["x"].files, LivePath)
  /\ Len(readFileMetadata(fs["x"]).versions) > 1
  /\ textCache["x"] = "a" /\ textFile["x"] = "a"

\* C26: orphan cleanup never removes a version directory whose metadata record
\* lists at least one version, neither when it runs in a GC step nor when it
\* runs at the end of a version delete (on the store that deleteFileVersion left)
C26_TrackedFolderKept ==
  [][/\ GcStep =>
          \A e \in Envs :
            (fs[e].fileVersionsDir /\ readFileMetadata(fs[e]).versions # <<>>)
              => (fs'[e].fileVersionsDir /\ fs'[e].metadataFile = fs[e].metadataFile)
     /\ \A v \in 1..MaxVersions :
          LET r == deleteFileVersion(fs["x"], v)
          IN (DeleteVersion("x", v, "env") /\ r.ok /\ r.state.fileVersionsDir
                /\ readFileMetadata(r.state).versions # <<>>)
               => (fs'["x"].fileVersionsDir
                     /\ fs'["x"].metadataFile = r.state.metadataFile)]_vars

C28_CancelOnlyMarks ==
  [][\A u \in 1..MaxUploads :
       (Cancel(u) /\ u \in DOMAIN uploadSessions)
         => /\ DOMAIN uploadSessions' = DOMAIN uploadSessions
            /\ uploadSessions'[u].status = "canceled"
            /\ uploadSessions'[u].canceledAt = now
            /\ uploadSessions'[u].chunks = uploadSessions[u].chunks
            /\ uploadSessions'[u].uploadedChunks = uploadSessions[u].uploadedChunks
            /\ uploadSessions'[u].totalChunks = uploadSessions[u].totalChunks
            /\ uploadSessions'[u].createdAt = uploadSessions[u].createdAt
            /\ uploadSessions'[u].lastActivity = uploadSessions[u].lastActivity
            /\ \A w \in (DOMAIN uploadSessions) \ {u} : uploadSessions'[w] = uploadSessions[w]
            /\ tempDir' = tempDir
            /\ fs' = fs]_vars

\* a canceled session is still registered with its chunk files on disk
C28_Witness ==
  \E u \in DOMAIN uploadSessions :
    /\ uploadSessions[u].status = "canceled"
    /\ result.op = "cancel" /\ result.id = u
    /\ uploadSessions[u].chunks # {}
    /\ \A i \in uploadSessions[u].chunks : existsSync(tempDir, ChunkPath(u, i))

\* C29: whatever cancels and reaper passes surround it, a complete either
\* answers 200 and stores as the live file the bytes of all the session's
\* chunks in index order (chunk i carries the byte i + 1), as one new version,
\* or answers an error and leaves the version store as it was
C29_CompleteWholeOrNothing ==
  [][\A u \in 1..MaxUploads :
       Complete(u) =>
         IF result'.status = 200
         THEN /\ u \in DOMAIN uploadSessions
              /\ fs'["x"].files[LivePath] =
                   [i \in 1..uploadSessions[u].totalChunks |-> i]
              /\ nextId' = nextId + 1
              /\ Len(readFileMetadata(fs'["x"]).versions)
                   = Len(readFileMetadata(fs["x"]).versions) + 1
         ELSE fs' = fs /\ nextId' = nextId]_vars

\* a complete has assembled a file of several chunks
C29_Witness ==
  /\ result.op = "complete" /\ result.status = 200
  /\ existsSync(fs["x"].files, LivePath)
  /\ fs["x"].files[LivePath] = [i \in 1..MaxChunks |-> i]

\* C30: a completed upload is gone from the registry for good: every later
\* chunk, status, cancel or complete for its id answers 404 and changes neither
\* sessions, temp files nor the version store; a complete succeeds only for an
\* upload that has not completed before, and the versions created are as many
\* as the uploads completed
C30_CompletedIsTerminal ==
  [][/\ nextId' - 1 = Cardinality(completed')
     /\ \A u \in 1..MaxUploads :
          /\ (Complete(u) /\ result'.status = 200) => u \notin completed
          /\ u \in completed =>
               /\ u \notin DOMAIN uploadSessions
               /\ u \notin DOMAIN uploadSessions'
               /\ ( \/ \E i \in 0..(MaxChunks - 1) : ReceiveChunk(u, i, <<i + 1>>)
                    \/ Status(u) \/ Cancel(u) \/ Complete(u) )
                    => /\ result'.status = 404
                       /\ result'.msg = "Upload session not found"
                       /\ UNCHANGED <<uploadSessions, tempDir, fs, nextId, completed>>]_vars

\* a request for an upload that completed earlier was answered 404
C30_Witness ==
  /\ result.id \in completed
  /\ result.status = 404
  /\ result.op \in {"chunk", "status", "cancel", "complete"}

\* C31: deleteFileVersion of a listed version that is not the current one
\* removes the archived file of that version and its metadata entry and nothing
\* else: the live copy, currentVersion, the other entries in their order and
\* the other archived files are as before (checked on the store the delete
\* route hands to deleteFileVersion, and on what the route leaves when the
\* live copy exists)
C31_DeleteOlderTouchesOnlyIt ==
  [][\A v \in 1..MaxVersions :
       LET s == fs["x"]
           metadata == readFileMetadata(s)
           r == deleteFileVersion(s, v)
           after == readFileMetadata(r.state)
           others == {i \in 1..Len(metadata.versions) : metadata.versions[i].versionId # v}
       IN (DeleteVersion("x", v, "env") /\ FindVersion(metadata, v) # {}
             /\ v # metadata.currentVersion.versionId)
            => /\ r.ok
               /\ DOMAIN r.state.files = (DOMAIN s.files) \ {v}
               /\ \A p \in DOMAIN r.state.files : r.state.files[p] = s.files[p]
               /\ after.currentVersion = metadata.currentVersion
               /\ Len(after.versions) = Cardinality(others)
               /\ \A i \in 1..Len(after.versions) :
                    after.versions[i] =
                      metadata.versions[CHOOSE j \in others :
                                          Cardinality({k \in others : k < j}) = i - 1]
               /\ existsSync(s.files, LivePath) => fs'["x"] = r.state]_vars

\* a version that was not current has been deleted: the delete left the mark
\* of an earlier promote in place, and the live copy is there
C31_Witness ==
  /\ result.op = "delete" /\ result.status = 200
  /\ result.id \in deleted
  /\ promoted["x"]
  /\ existsSync(fs["x"].files, LivePath)
  /\ Len(readFileMetadata(fs["x"]).versions) >= 2

\* C32: a promote that does not promote changes nothing: an unknown versionId
\* is answered 404, a listed version that is already current 200, a listed
\* version that is not current and whose archived file is missing 404, and in
\* the three cases files, metadata, text and upload state are as before
C32_FailedPromoteChangesNothing ==
  [][\A v \in 1..MaxVersions :
       LET metadata == readFileMetadata(fs["x"])
           listed == \E i \in 1..Len(metadata.versions) : metadata.versions[i].versionId = v
           current == listed /\ metadata.currentVersion.versionId = v
           missing == listed /\ ~current /\ v \notin DOMAIN fs["x"].files
       IN Promote("x", v) =>
            /\ ~listed => (result'.status = 404 /\ result'.msg = "Version not found")
            /\ current => (result'.status = 200 /\ result'.msg = "Version is already current")
            /\ missing => (result'.status = 404 /\ result'.msg = "Version file not found")
            /\ (~listed \/ current \/ missing)
                 => UNCHANGED <<fs, textFile, textCache, nextId, uploadSessions, tempDir>>]_vars

\* a promote found the archived file of a listed, non-current version missing
C32_Witness ==
  /\ result.op = "promote" /\ result.status = 404
  /\ result.msg = "Version file not found"
  /\ \E i \in 1..Len(readFileMetadata(fs["x"]).versions) :
       readFileMetadata(fs["x"]).versions[i].versionId = result.id
  /\ result.id \notin DOMAIN fs["x"].files

\* C33: every metadata record on disk lists at least one version and names as
\* currentVersion a non-null version whose versionId is in the list
C33_MetadataWellFormed ==
  \A e \in Envs :
    fs[e].metadataFile # <<>> =>
      LET metadata == readFileMetadata(fs[e])
      IN /\ metadata.versions # <<>>
         /\ metadata.currentVersion # NullVersion
         /\ \E i \in 1..Len(metadata.versions) :
              metadata.versions[i].versionId = metadata.currentVersion.versionId

\* the delete of the last version has removed the metadata record
C33_Witness ==
  /\ result.op = "delete" /\ result.status = 200
  /\ result.info = <<0>>
  /\ fs["x"].metadataFile = <<>>

\* C34: in every metadata record on disk the versions are in descending order
\* of uploadedAt, and versions with the same uploadedAt are in the order in
\* which they were created (versionIds are handed out in creation order)
C34_VersionsNewestFirstStable ==
  \A e \in Envs :
    LET versions == readFileMetadata(fs[e]).versions
    IN \A i, j \in 1..Len(versions) :
         i < j => /\ versions[i].uploadedAt >= versions[j].uploadedAt
                  /\ versions[i].uploadedAt = versions[j].uploadedAt
                       => versions[i].versionId < versions[j].versionId

\* after a delete, the record lists two versions of one timestamp and a promote
\* has taken place
C34_Witness ==
  LET versions == readFileMetadata(fs["x"]).versions
  IN /\ result.op = "delete" /\ result.status = 200
     /\ promoted["x"]
     /\ \E i, j \in 1..Len(versions) :
          i < j /\ versions[i].uploadedAt = versions[j].uploadedAt

\* C35: after every step, a text file that exists is not empty and holds the
\* environment's current text, which is not empty; a setSharedText with the
\* empty text leaves no text file, and a getSharedText leaves the text files
\* as they were
C35_TextFileOnlyWhileNonEmpty ==
  [][\A e \in Envs :
       /\ textFile'[e] # NoText =>
            /\ textFile'[e] # ""
            /\ (IF textCache'[e] # NoText THEN textCache'[e] ELSE textFile'[e]) = textFile'[e]
       /\ SetText(e, "") => textFile'[e] = NoText
       /\ GetText(e) => textFile' = textFile]_vars

\* one environment holds its non-empty text in a file, the other was last
\* given the empty text and has no file
C35_Witness ==
  /\ textFile["x"] = "a" /\ lastText["x"] = "a"
  /\ lastText["default"] = "" /\ textFile["default"] = NoText
  /\ result.op = "getText"

\* ---------------------------------------------------------------------------
\* Read-only file routes
\* ---------------------------------------------------------------------------

\* GET /:environment/files
ListFiles(e) ==
  /\ LET s == getEnvironmentUploadsDir(fs[e], FALSE)
         versionedFiles == getAllVersionedFiles(s, fileName)
     IN /\ fs' = [fs EXCEPT ![e] = s]
        /\ result' = Response("list", e, 200, "", 0, <<Cardinality(versionedFiles)>>)
  /\ UNCHANGED <<completed, fileName, via, orphanedCount, lastText, now, nextId, textFile, textCache, gcPending, uploadVars, orig, promoted, deleted>>

\* GET /:environment/files/:filename, versionId = 0 standing for a request
\* without the version query parameter
Download(e, versionId) ==
  /\ IF versionId # 0
     THEN LET filepath == getFileVersionPath(fs[e], versionId)
          IN /\ fs' = fs
             /\ result' = IF filepath = NoPath \/ ~existsSync(fs[e].files, filepath)
                          THEN Response("download", e, 404, "Version not found", versionId, <<>>)
                          ELSE Response("download", e, 200, "", versionId, fs[e].files[filepath])
     ELSE LET s == getEnvironmentUploadsDir(fs[e], FALSE)
          IN /\ fs' = [fs EXCEPT ![e] = s]
             /\ result' = IF ~existsSync(s.files, LivePath)
                          THEN Response("download", e, 404, "File not found", 0, <<>>)
                          ELSE Response("download", e, 200, "", 0, s.files[LivePath])
  /\ UNCHANGED <<completed, fileName, via, orphanedCount, lastText, now, nextId, textFile, textCache, gcPending, uploadVars, orig, promoted, deleted>>

\* GET /:environment/files/:filename/versions
GetVersions(e) ==
  /\ LET metadata == readFileMetadata(fs[e])
     IN result' = IF Len(metadata.versions) = 0
                  THEN Response("versions", e, 404, "File not found", 0, <<>>)
                  ELSE Response("versions", e, 200, "", metadata.currentVersion.versionId,
                                <<Len(metadata.versions)>>)
  /\ UNCHANGED <<completed, fileName, via, orphanedCount, lastText, now, nextId, storeVars, uploadVars, orig, promoted, deleted>>

\* The requests of a client that stores in environment x and reads and
\* uploads in chunks in both environments
NextLazy ==
  \/ Upload("x", <<1>>)
  \/ DeleteFile("x", "env")
  \/ SetText("x", "a")
  \/ \E e \in Envs : GetText(e)
  \/ \E e \in Envs : ListFiles(e)
  \/ \E e \in Envs, v \in 0..1 : Download(e, v)
  \/ \E e \in Envs : GetVersions(e)
  \/ \E e \in Envs : DOMAIN uploadSessions = {} /\ Initiate(e, TRUE, 1, 1)
  \/ \E u \in 1..MaxUploads : ReceiveChunk(u, 0, <<1>>)
  \/ \E u \in DOMAIN uploadSessions : Status(u)
  \/ \E u \in 1..MaxUploads : Cancel(u)
  \/ \E u \in 1..MaxUploads : Complete(u)

SpecLazy == Init /\ [][NextLazy]_vars

\* A request that only reads, or that opens, feeds or cancels an upload session
ReadOrSessionStep(e) ==
  \/ GetText(e)
  \/ ListFiles(e)
  \/ \E v \in 0..1 : Download(e, v)
  \/ GetVersions(e)
  \/ Initiate(e, TRUE, 1, 1)
  \/ \E u \in DOMAIN uploadSessions :
       uploadSessions[u].environmentName = e /\ ReceiveChunk(u, 0, <<1>>)
  \/ \E u \in DOMAIN uploadSessions :
       uploadSessions[u].environmentName = e /\ (Status(u) \/ Cancel(u))

NextChunks ==
  \/ InitiateWithin(MaxOpen, "x", TRUE, 1, MaxChunks)
  \/ \E u \in 1..MaxOpen, i \in 0..(MaxChunks - 1) : ReceiveChunk(u, i, <<i + 1>>)

SpecChunks == Init /\ [][NextChunks]_vars

\* What the sessions and the temp directory hold, apart from activity times
ChunkState(st) ==
  [uploadSessions |-> [u \in DOMAIN st.uploadSessions |->
                         [chunks |-> st.uploadSessions[u].chunks,
                          uploadedChunks |-> st.uploadSessions[u].uploadedChunks]],
   tempDir |-> st.tempDir]

\* Two chunk requests served one after the other, the first at t and the
\* second at t + 1
StoreBoth(u1, i1, u2, i2) ==
  LET first == StoreChunk(uploadSessions, tempDir, now, u1, i1, <<i1 + 1>>)
  IN StoreChunk(first.uploadSessions, first.tempDir, now + 1, u2, i2, <<i2 + 1>>)

\* C37: two receiveChunk calls for distinct indices of one session or for
\* different sessions leave the same chunk maps, counts and temp files in
\* either order, and a call changes neither the chunks nor the count nor the
\* temp files of another session.
C37_ReceiveChunkCommutes ==
  /\ \A u1 \in DOMAIN uploadSessions, u2 \in DOMAIN uploadSessions :
       \A i1 \in 0..(MaxChunks - 1), i2 \in 0..(MaxChunks - 1) :
         (u1 < u2 \/ (u1 = u2 /\ i1 < i2)) =>
           ChunkState(StoreBoth(u1, i1, u2, i2)) = ChunkState(StoreBoth(u2, i2, u1, i1))
  /\ \A u1 \in DOMAIN uploadSessions, i1 \in 0..(MaxChunks - 1) :
       LET one == StoreChunk(uploadSessions, tempDir, now, u1, i1, <<i1 + 1>>)
       IN \A u2 \in (DOMAIN uploadSessions) \ {u1} :
            /\ one.uploadSessions[u2] = uploadSessions[u2]
            /\ \A i \in 0..(MaxChunks - 1) :
                 /\ existsSync(one.tempDir, ChunkPath(u2, i)) = existsSync(tempDir, ChunkPath(u2, i))
                 /\ existsSync(tempDir, ChunkPath(u2, i)) =>
                      one.tempDir[ChunkPath(u2, i)] = tempDir[ChunkPath(u2, i)]

C37_Witness ==
  /\ result.op = "chunk"
  /\ result.status = 200
  /\ Cardinality(DOMAIN uploadSessions) = 2
  /\ \A u \in DOMAIN uploadSessions :
       /\ uploadSessions[u].chunks = 0..(MaxChunks - 1)
       /\ uploadSessions[u].uploadedChunks = MaxChunks
       /\ \A i \in 0..(MaxChunks - 1) : tempDir[ChunkPath(u, i)] = <<i + 1>>

\* ---------------------------------------------------------------------------
\* Uploads of one file by several routes
\* ---------------------------------------------------------------------------

\* Direct (or pasted) uploads and chunked uploads of the same file, at the
\* same or at different times
NextVersions ==
  \/ Tick
  \/ Upload("x", <<1>>)
  \/ DOMAIN uploadSessions = {} /\ Initiate("x", TRUE, 1, MaxChunks)
  \/ \E u \in 1..MaxUploads, i \in 0..(MaxChunks - 1) : ReceiveChunk(u, i, <<i + 1>>)
  \/ \E u \in 1..MaxUploads : Complete(u)

SpecVersions == Init /\ [][NextVersions]_vars

\* C38: after N successful uploads of one file (direct, pasted or completed
\* from chunks, in any order) the persisted versions list holds exactly N
\* entries, one per upload, with pairwise distinct versionIds.
C38_NoLostVersion ==
  LET versions == Versions("x")
  IN /\ Len(versions) = nextId - 1
     /\ {versions[i].versionId : i \in 1..Len(versions)} = 1..(nextId - 1)
     /\ \A i \in 1..Len(versions), j \in 1..Len(versions) :
          versions[i].versionId = versions[j].versionId => i = j
     /\ fs["x"].metadataFile # <<>> \/ nextId = 1

C38_Witness ==
  /\ nextId - 1 = MaxVersions
  /\ Len(Versions("x")) = MaxVersions
  /\ completed # {}
  /\ Cardinality(completed) < MaxVersions
  /\ \E i \in 1..MaxVersions : Versions("x")[i].uploadedAt # Versions("x")[1].uploadedAt

\* ---------------------------------------------------------------------------
\* Chunked uploads completed on any environment's endpoint
\* ---------------------------------------------------------------------------

\* Text and files are stored in both environments; sessions are opened in
\* either and completed on the endpoint of either
NextBound ==
  \/ \E e \in Envs : SetText(e, "a")
  \/ \E e \in Envs : Upload(e, <<2>>)
  \/ \E e \in Envs : DOMAIN uploadSessions = {} /\ Initiate(e, TRUE, 1, 1)
  \/ \E u \in 1..MaxUploads : ReceiveChunk(u, 0, <<1>>)
  \/ \E sanitizedEnv \in Envs, u \in 1..MaxUploads : CompleteVia(sanitizedEnv, u)

SpecBound == Init /\ [][NextBound]_vars

\* C39: a complete request received on any environment's endpoint stores the
\* combined file as one new version in the environment where the session was
\* initiated, and changes no file or metadata of another environment and no
\* text.
C39_SessionBoundToEnvironment ==
  [][\A sanitizedEnv \in Envs, u \in DOMAIN uploadSessions :
       CompleteVia(sanitizedEnv, u) =>
         LET e == uploadSessions[u].environmentName
         IN /\ \A d \in Envs \ {e} : fs'[d] = fs[d]
            /\ textFile' = textFile
            /\ textCache' = textCache
            /\ result'.status = 200 =>
                 /\ result'.env = e
                 /\ Len(readFileMetadata(fs'[e]).versions) = Len(Versions(e)) + 1
                 /\ FindVersion(readFileMetadata(fs'[e]), nextId) # {}
                 /\ \A d \in Envs \ {e} : FindVersion(readFileMetadata(fs'[d]), nextId) = {}
                 /\ fs'[e].files[LivePath] = Concat(tempDir, u, uploadSessions[u].totalChunks)
            /\ result'.status # 200 => fs'[e] = fs[e]]_vars

C39_Witness ==
  /\ result.op = "complete"
  /\ result.status = 200
  /\ result.env = "x"
  /\ via = "default"
  /\ FindVersion(readFileMetadata(fs["x"]), result.id) # {}
  /\ HasLive("x")
  /\ fs["x"].files[LivePath] = <<1>>
  /\ HasLive("default")
  /\ fs["default"].files[LivePath] = <<2>>
  /\ textFile["default"] = "a"

====
